---- MODULE Spec2Model ----
(***************************************************************************)
(* A model of hotrunner.py: HotRunner.run_tests (the selection of the test *)
(* labels handed to DjangoTestSuiteRunner.run_tests) and                   *)
(* HotRunnerTestResult (the timing and report-writing test result).        *)
(*                                                                         *)
(* Python values are modelled as follows.                                  *)
(*  - A dotted application name is the sequence of its segments, so that   *)
(*    x.split('.') is the name itself, x.split('.')[-1] its last segment   *)
(*    and x.startswith('django.contrib.') a test on its first segments.    *)
(*  - A setting that holds a string, a boolean or None, or that is not     *)
(*    set at all, is a token (Missing, NoneV, PyFalse, PyTrue, "" or a     *)
(*    path); the EXCLUDED_TEST_APPS setting is a record whose t field says *)
(*    whether it is missing, None or a list.                               *)
(*  - A report file is a record [exists, data]; data is the sequence of    *)
(*    blocks written to it, one block per "with open(...)" statement.      *)
(*  - Two processes, "rep" and "norep", run the same program on the same   *)
(*    inputs and receive the same callbacks; they differ only in the two   *)
(*    report-destination settings.                                         *)
(***************************************************************************)
EXTENDS Integers, Sequences, FiniteSets, TLC

\* Bounds of the model.
MaxApps == 2
MaxExcluded == 1
MaxTests == 2
MaxClock == 1

VARIABLES
    settings,       \* django.conf.settings of each process
    test_labels,    \* the labels given on the command line
    suite,          \* the number of tests of the suite that is run
    pc,             \* where the run is: idle, not_started, running, finished, crashed
    handed,         \* per process: the labels handed to super().run_tests
    raised,         \* per process: the exception that ended the run, or "none"
    result,         \* per process: the HotRunnerTestResult object
    fs,             \* per process: the files at the report paths
    clock,          \* time.time()
    cur,            \* the test between startTest and its terminal callback, or 0
    delivered       \* history: the terminal callbacks of this run, in order

vars == <<settings, test_labels, suite, pc, handed, raised, result, fs, clock,
          cur, delivered>>

Procs == {"rep", "norep"}

----------------------------------------------------------------------------
\* Python values

Missing == "<missing>"
NoneV == "<None>"
PyFalse == "<False>"
PyTrue == "<True>"

\* bool(v) of a token
Truthy(v) == v \notin {Missing, NoneV, PyFalse, ""}

\* getattr(settings, name, default)
Getattr(v, default) == IF v = Missing THEN default ELSE v

Range(s) == {s[i] : i \in DOMAIN s}

SeqsUpTo(S, n) == UNION {[1..k -> S] : k \in 0..n}

----------------------------------------------------------------------------
\* HotRunner.run_tests

AppNames ==
    { <<"django", "contrib", "auth">>, <<"proj", "foo">>, <<"foo">>, <<"bar">> }

ExcludedNames == { <<"foo">>, <<"proj", "foo">> }

\* x.split('.')[-1]
Leaf(x) == x[Len(x)]

\* x.startswith('django.contrib.')
StartsWithDjangoContrib(x) ==
    Len(x) >= 3 /\ x[1] = "django" /\ x[2] = "contrib"

\* variant: TEST_ALL_APPS is not consulted
ExcludedApps_IgnoreOverride(st) ==
    IF st.EXCLUDED_TEST_APPS.t = "missing"
    THEN [t |-> "list", items |-> <<>>]
    ELSE st.EXCLUDED_TEST_APPS

\* getattr(settings, 'EXCLUDED_TEST_APPS', []), then [] when TEST_ALL_APPS
\* is true
ExcludedApps(st) ==
    LET excluded_apps ==
            IF st.EXCLUDED_TEST_APPS.t = "missing"
            THEN [t |-> "list", items |-> <<>>]
            ELSE st.EXCLUDED_TEST_APPS
    IN  IF Truthy(Getattr(st.TEST_ALL_APPS, PyFalse))
        THEN [t |-> "list", items |-> <<>>]
        ELSE excluded_apps

\* variant: the leaf name is looked up in the exclusion list
Keeps_ByLeaf(x, items) ==
    /\ <<Leaf(x)>> \notin Range(items)
    /\ ~StartsWithDjangoContrib(x)

\* the filter of the list comprehension: x not in excluded_apps and not
\* x.startswith('django.contrib.')
Keeps(x, items) ==
    /\ x \notin Range(items)
    /\ ~StartsWithDjangoContrib(x)

\* [x.split('.')[-1] for x in apps if Keeps(x)]
RECURSIVE Comprehension(_, _)
Comprehension(apps, items) ==
    IF apps = <<>> THEN <<>>
    ELSE LET rest == Comprehension(Tail(apps), items)
         IN  IF Keeps(Head(apps), items)
             THEN <<Leaf(Head(apps))>> \o rest
             ELSE rest

\* variant: the labels are computed even when some were given
SelectTargets_Always(st, labels) ==
    LET ex == ExcludedApps(st)
    IN  IF ex.t = "none" /\ st.INSTALLED_APPS # <<>>
        THEN [labels |-> <<>>, exc |-> "TypeError"]
        ELSE [labels |-> Comprehension(st.INSTALLED_APPS, ex.items),
              exc |-> "none"]

\* The outcome of run_tests up to its call of super().run_tests: the labels
\* handed over, or the exception raised.  "x not in None" raises TypeError
\* as soon as the comprehension tests its first element.
SelectTargets(st, labels) ==
    IF labels # <<>>
    THEN [labels |-> labels, exc |-> "none"]
    ELSE LET ex == ExcludedApps(st)
         IN  IF ex.t = "none" /\ st.INSTALLED_APPS # <<>>
             THEN [labels |-> <<>>, exc |-> "TypeError"]
             ELSE [labels |-> Comprehension(st.INSTALLED_APPS, ex.items),
                   exc |-> "none"]

----------------------------------------------------------------------------
\* HotRunnerTestResult

Paths == {"a.html", "b.html"}

FileSettingValues == {Missing, NoneV, "", "a.html", "b.html"}

\* variant: a default path when HOTRUNNER_XUNIT_FILENAME is not set
XunitFilename_DefaultPath(st) ==
    LET hxf == Getattr(st.HOTRUNNER_XUNIT_FILENAME, "a.html")
        juxf == Getattr(st.JUXD_FILENAME, NoneV)
    IN  IF Truthy(hxf) THEN hxf ELSE juxf

\* variant: JUXD_FILENAME is preferred
XunitFilename_JuxdFirst(st) ==
    LET hxf == Getattr(st.HOTRUNNER_XUNIT_FILENAME, NoneV)
        juxf == Getattr(st.JUXD_FILENAME, NoneV)
    IN  IF Truthy(juxf) THEN juxf ELSE hxf

\* the property xunit_filename: "hxf or juxf", None when neither is set
XunitFilename(st) ==
    LET hxf == Getattr(st.HOTRUNNER_XUNIT_FILENAME, NoneV)
        juxf == Getattr(st.JUXD_FILENAME, NoneV)
    IN  IF Truthy(hxf) THEN hxf ELSE juxf

\* '{0}'.format(v): a list is written as the repr of the list, an integer
\* as its decimal digits
FormatList(l) == [repr |-> "list", items |-> l]
FormatInt(n) == [repr |-> "int", val |-> n]

\* A new result object: TestResult.__init__ sets the aggregates; the
\* timing attributes do not exist until a callback assigns them.
NewResult ==
    [ attrs |-> {},
      case_start_time |-> 0,
      case_time_taken |-> 0,
      run_start_time |-> 0,
      errors |-> <<>>,
      failures |-> <<>>,
      skipped |-> <<>>,
      expectedFailures |-> <<>>,
      unexpectedSuccesses |-> <<>>,
      testsRun |-> 0 ]

\* The state one process's callback works on: its result object, its files
\* and the exception raised so far.  Every statement below is skipped once
\* an exception is raised.
Ctx(res, files) == [res |-> res, files |-> files, exc |-> "none"]

\* variant: every mode appends
OpenWrite_NoTruncate(c, path, mode, block, fail) ==
    IF c.exc # "none" THEN c
    ELSE IF fail THEN [c EXCEPT !.exc = "IOError"]
    ELSE [c EXCEPT !.files[path] =
             [exists |-> TRUE, data |-> @.data \o <<block>>]]

\* with open(path, mode) as f: f.write(block).  A failing open raises
\* IOError and leaves the file as it was; mode 'w' truncates, 'a' appends,
\* and both create the file.
OpenWrite(c, path, mode, block, fail) ==
    IF c.exc # "none" THEN c
    ELSE IF fail THEN [c EXCEPT !.exc = "IOError"]
    ELSE [c EXCEPT !.files[path] =
             [exists |-> TRUE,
              data |-> (IF mode = "w" THEN <<>> ELSE @.data) \o <<block>>]]

\* self.case_time_taken = time.time() - self.case_start_time
SetCaseTimeTaken(c, now) ==
    IF c.exc # "none" THEN c
    ELSE IF "case_start_time" \notin c.res.attrs
    THEN [c EXCEPT !.exc = "AttributeError"]
    ELSE [c EXCEPT !.res.case_time_taken = now - c.res.case_start_time,
                   !.res.attrs = @ \cup {"case_time_taken"}]

ExcOf(kind) == IF kind = "error" THEN "ValueError" ELSE "AssertionError"

MakeTestcaseElement(c, st, test, fail) ==
    IF c.exc = "none" /\ Truthy(XunitFilename(st))
    THEN OpenWrite(c, XunitFilename(st), "a",
                   [tag |-> "case", time |-> c.res.case_time_taken,
                    classname |-> test, name |-> test], fail)
    ELSE c

AddTbToTest(c, st, test, kind, fail) ==
    IF c.exc = "none" /\ Truthy(XunitFilename(st))
    THEN OpenWrite(c, XunitFilename(st), "a",
                   [tag |-> "tb", message |-> test, type |-> ExcOf(kind),
                    text |-> test], fail)
    ELSE c

\* The inherited TextTestResult callbacks, reached through super()
SuperStartTest(c, test) ==
    IF c.exc # "none" THEN c ELSE [c EXCEPT !.res.testsRun = @ + 1]

SuperAdd(c, kind, test) ==
    IF c.exc # "none" THEN c
    ELSE CASE kind = "success" -> c
           [] kind = "failure" -> [c EXCEPT !.res.failures = Append(@, test)]
           [] kind = "error" -> [c EXCEPT !.res.errors = Append(@, test)]
           [] kind = "skip" -> [c EXCEPT !.res.skipped = Append(@, test)]
           [] kind = "expected_failure" ->
                [c EXCEPT !.res.expectedFailures = Append(@, test)]
           [] kind = "unexpected_success" ->
                [c EXCEPT !.res.unexpectedSuccesses = Append(@, test)]

WithTraceback == {"failure", "error", "expected_failure"}

\* startTest
StartTestCb(c, test, now) ==
    SuperStartTest(
        [c EXCEPT !.res.case_start_time = now,
                  !.res.attrs = @ \cup {"case_start_time"}],
        test)

\* addSuccess, addUnexpectedSuccess, addSkip: time, entry, super
\* addFailure, addError, addExpectedFailure: time, entry, traceback, super
\* io is the number of the open of this callback that fails (0: none)
TerminalCb(c, st, kind, test, now, io) ==
    LET c1 == SetCaseTimeTaken(c, now)
        c2 == IF Truthy(XunitFilename(st))
              THEN LET e == MakeTestcaseElement(c1, st, test, io = 1)
                   IN  IF kind \in WithTraceback
                       THEN AddTbToTest(e, st, test, kind, io = 2)
                       ELSE e
              ELSE c1
    IN  SuperAdd(c2, kind, test)

\* startTestRun
StartTestRunCb(c, st, now, io) ==
    LET c1 == IF Truthy(XunitFilename(st))
              THEN OpenWrite(c, XunitFilename(st), "w",
                             [tag |-> "html_open"], io = 1)
              ELSE c
    IN  IF c1.exc # "none" THEN c1
        ELSE [c1 EXCEPT !.res.run_start_time = now,
                        !.res.attrs = @ \cup {"run_start_time"}]

SummaryBlock(res, run_time_taken) ==
    [ tag |-> "summary",
      name |-> "Dispatch",
      errors |-> FormatList(res.errors),
      failures |-> FormatList(res.failures),
      skips |-> FormatList(res.skipped),
      tests |-> FormatInt(res.testsRun),
      time |-> run_time_taken ]

\* stopTestRun
StopTestRunCb(c, st, now, io) ==
    LET run_time_taken == now - c.res.run_start_time
        c1 == IF Truthy(XunitFilename(st))
              THEN OpenWrite(c, XunitFilename(st), "a",
                             SummaryBlock(c.res, run_time_taken), io = 1)
              ELSE c
        c2 == IF Truthy(XunitFilename(st))
              THEN OpenWrite(c1, XunitFilename(st), "a",
                             [tag |-> "html_close"], io = 2)
              ELSE c1
    IN  c2

----------------------------------------------------------------------------
\* Initial states: the settings, the command line and the suite

ExcludedSettingValues ==
    {[t |-> "missing", items |-> <<>>], [t |-> "none", items |-> <<>>]}
    \cup {[t |-> "list", items |-> l] : l \in SeqsUpTo(ExcludedNames, MaxExcluded)}

OverrideSettingValues == {Missing, NoneV, PyFalse, PyTrue}

LabelLists == {<<>>, <<"foo">>, <<"bar", "foo">>}

ReportSettings == [hxf : FileSettingValues, juxf : FileSettingValues]

HasPathSetting(r) == Truthy(r.hxf) \/ Truthy(r.juxf)

\* The report settings of the two processes: "rep" has a destination,
\* "norep" has none, and one of the two has the plain form.
ReportSettingPairs ==
    {p \in [rep : ReportSettings, norep : ReportSettings] :
        /\ HasPathSetting(p.rep)
        /\ ~HasPathSetting(p.norep)
        /\ \/ p.rep = [hxf |-> "a.html", juxf |-> Missing]
           \/ p.norep = [hxf |-> Missing, juxf |-> Missing]}

MkSettings(apps, excluded, override, r) ==
    [ INSTALLED_APPS |-> apps,
      EXCLUDED_TEST_APPS |-> excluded,
      TEST_ALL_APPS |-> override,
      HOTRUNNER_XUNIT_FILENAME |-> r.hxf,
      JUXD_FILENAME |-> r.juxf ]

\* a.html does not exist yet; b.html is left over from some earlier use
InitialFiles ==
    [p \in Paths |->
        IF p = "a.html" THEN [exists |-> FALSE, data |-> <<>>]
        ELSE [exists |-> TRUE, data |-> <<[tag |-> "stale"]>>]]

InitCommon ==
    /\ pc = "idle"
    /\ handed = [s \in Procs |-> <<>>]
    /\ raised = [s \in Procs |-> "none"]
    /\ result = [s \in Procs |-> NewResult]
    /\ fs = [s \in Procs |-> InitialFiles]
    /\ clock = 0
    /\ cur = [test |-> 0, at |-> 0]
    /\ delivered = <<>>

\* every configuration of the selection, with an empty suite
InitSelect ==
    /\ \E apps \in SeqsUpTo(AppNames, MaxApps),
          excluded \in ExcludedSettingValues,
          override \in OverrideSettingValues :
            settings =
                [s \in Procs |->
                    MkSettings(apps, excluded, override,
                        IF s = "rep" THEN [hxf |-> "a.html", juxf |-> "b.html"]
                        ELSE [hxf |-> Missing, juxf |-> Missing])]
    /\ test_labels \in LabelLists
    /\ suite = 0
    /\ InitCommon

\* every configuration of the report destination, with a suite of one test
InitConfig ==
    /\ \E p \in ReportSettingPairs :
            settings =
                [s \in Procs |->
                    MkSettings(<<<<"proj", "foo">>>>,
                               [t |-> "missing", items |-> <<>>], Missing,
                               p[s])]
    /\ test_labels = <<>>
    /\ suite = 1
    /\ InitCommon

\* a suite of several tests, under two configurations of the report
\* destination
SinkSettingPairs ==
    { [rep |-> [hxf |-> "a.html", juxf |-> "b.html"],
       norep |-> [hxf |-> Missing, juxf |-> Missing]],
      [rep |-> [hxf |-> NoneV, juxf |-> "b.html"],
       norep |-> [hxf |-> "", juxf |-> NoneV]] }

InitSink ==
    /\ \E p \in SinkSettingPairs :
            settings =
                [s \in Procs |->
                    MkSettings(<<<<"proj", "foo">>>>,
                               [t |-> "missing", items |-> <<>>], Missing,
                               p[s])]
    /\ test_labels = <<>>
    /\ suite = MaxTests
    /\ InitCommon

Init == InitSelect \/ InitConfig \/ InitSink

----------------------------------------------------------------------------
\* Actions.  Each one is a step of the run, taken by both processes.

After(out, next) ==
    /\ result' = [s \in Procs |-> out[s].res]
    /\ fs' = [s \in Procs |-> out[s].files]
    /\ raised' = [s \in Procs |-> out[s].exc]
    /\ pc' = IF \E s \in Procs : out[s].exc # "none" THEN "crashed" ELSE next

\* HotRunner.run_tests, up to the call of super().run_tests
RunTests ==
    /\ pc = "idle"
    /\ LET sel == [s \in Procs |-> SelectTargets(settings[s], test_labels)]
       IN  /\ handed' = [s \in Procs |-> sel[s].labels]
           /\ raised' = [s \in Procs |-> sel[s].exc]
           /\ pc' = IF \E s \in Procs : sel[s].exc # "none"
                    THEN "crashed" ELSE "not_started"
    /\ UNCHANGED <<settings, test_labels, suite, result, fs, clock, cur,
                   delivered>>

\* run_suite: the runner makes the result and calls startTestRun
StartTestRun ==
    /\ pc = "not_started"
    /\ \E io \in 0..1 :
        After([s \in Procs |->
                  StartTestRunCb(Ctx(result[s], fs[s]), settings[s], clock, io)],
              "running")
    /\ UNCHANGED <<settings, test_labels, suite, handed, clock, cur, delivered>>

\* time passes during the run
Tick ==
    /\ pc = "running"
    /\ clock < MaxClock
    /\ clock' = clock + 1
    /\ UNCHANGED <<settings, test_labels, suite, pc, handed, raised, result,
                   fs, cur, delivered>>

StartTest ==
    /\ pc = "running"
    /\ cur.test = 0
    /\ Len(delivered) < suite
    /\ LET test == Len(delivered) + 1
       IN  /\ cur' = [test |-> test, at |-> clock]
           /\ After([s \in Procs |->
                        StartTestCb(Ctx(result[s], fs[s]), test, clock)],
                    "running")
    /\ UNCHANGED <<settings, test_labels, suite, handed, clock, delivered>>

\* a terminal callback for the test that was started
Terminal(kind) ==
    /\ pc = "running"
    /\ cur.test # 0
    /\ \E io \in 0..2 :
        After([s \in Procs |->
                  TerminalCb(Ctx(result[s], fs[s]), settings[s], kind,
                             cur.test, clock, io)],
              "running")
    /\ delivered' = Append(delivered,
                           [kind |-> kind, test |-> cur.test, started |-> TRUE,
                            at |-> clock, startAt |-> cur.at])
    /\ cur' = [test |-> 0, at |-> 0]
    /\ UNCHANGED <<settings, test_labels, suite, handed, clock>>

AddSuccess == Terminal("success")
AddFailure == Terminal("failure")
AddError == Terminal("error")
AddUnexpectedSuccess == Terminal("unexpected_success")
AddSkip == Terminal("skip")
AddExpectedFailure == Terminal("expected_failure")

\* addError for a test whose startTest was never called (the engine reports
\* the error of a class or module fixture this way)
AddErrorNotStarted ==
    /\ pc = "running"
    /\ cur.test = 0
    /\ Len(delivered) < suite
    /\ LET test == Len(delivered) + 1
       IN  /\ \E io \in 0..2 :
                After([s \in Procs |->
                          TerminalCb(Ctx(result[s], fs[s]), settings[s],
                                     "error", test, clock, io)],
                      "running")
           /\ delivered' = Append(delivered,
                                  [kind |-> "error", test |-> test,
                                   started |-> FALSE, at |-> clock,
                                   startAt |-> 0])
    /\ UNCHANGED <<settings, test_labels, suite, handed, clock, cur>>

StopTestRun ==
    /\ pc = "running"
    /\ cur.test = 0
    /\ \E io \in 0..2 :
        After([s \in Procs |->
                  StopTestRunCb(Ctx(result[s], fs[s]), settings[s], clock, io)],
              "finished")
    /\ UNCHANGED <<settings, test_labels, suite, handed, clock, cur, delivered>>

\* the command is run again: new runner, new result, the same files
NewRun ==
    /\ pc \in {"finished", "crashed"}
    /\ pc' = "idle"
    /\ handed' = [s \in Procs |-> <<>>]
    /\ raised' = [s \in Procs |-> "none"]
    /\ result' = [s \in Procs |-> NewResult]
    /\ cur' = [test |-> 0, at |-> 0]
    /\ delivered' = <<>>
    /\ UNCHANGED <<settings, test_labels, suite, fs, clock>>

Next ==
    \/ RunTests
    \/ StartTestRun
    \/ Tick
    \/ StartTest
    \/ AddSuccess
    \/ AddFailure
    \/ AddError
    \/ AddUnexpectedSuccess
    \/ AddSkip
    \/ AddExpectedFailure
    \/ AddErrorNotStarted
    \/ StopTestRun
    \/ NewRun

Spec == Init /\ [][Next]_vars

----------------------------------------------------------------------------
\* Vocabulary of the properties, stated on the settings and the history
\* rather than through the operators of the model

Falsy == {Missing, NoneV, PyFalse, ""}

IsBundled(x) == Len(x) > 2 /\ SubSeq(x, 1, 2) = <<"django", "contrib">>

LeafNames(apps) == [i \in DOMAIN apps |-> apps[i][Len(apps[i])]]

Apps == settings["rep"].INSTALLED_APPS
Excluded == settings["rep"].EXCLUDED_TEST_APPS
Override == settings["rep"].TEST_ALL_APPS

NotBundled(x) == ~IsBundled(x)
NotExcludedByFullName(x) == ~IsBundled(x) /\ x \notin Range(Excluded.items)

NoDestination(s) ==
    /\ settings[s].HOTRUNNER_XUNIT_FILENAME \in Falsy
    /\ settings[s].JUXD_FILENAME \in Falsy

Destination(s) ==
    IF settings[s].HOTRUNNER_XUNIT_FILENAME \notin Falsy
    THEN settings[s].HOTRUNNER_XUNIT_FILENAME
    ELSE settings[s].JUXD_FILENAME

Report(s) == fs[s][Destination(s)].data

KindCount(kind) ==
    Cardinality({i \in DOMAIN delivered : delivered[i].kind = kind})

StartedCount ==
    Cardinality({i \in DOMAIN delivered : delivered[i].started})

\* the blocks a sequence of terminal events should leave in the report:
\* one entry per event, with the exception attached to a failure, an error
\* or an expected failure
RECURSIVE EntryShapes(_)
EntryShapes(events) ==
    IF events = <<>> THEN <<>>
    ELSE LET e == Head(events)
         IN  <<[tag |-> "case", test |-> e.test]>>
             \o (IF e.kind \in {"failure", "error", "expected_failure"}
                 THEN <<[tag |-> "tb", test |-> e.test]>> ELSE <<>>)
             \o EntryShapes(Tail(events))

BlockShape(b) ==
    [tag |-> b.tag,
     test |-> IF b.tag = "case" THEN b.name
              ELSE IF b.tag = "tb" THEN b.text ELSE 0]

Shapes(data) == [i \in DOMAIN data |-> BlockShape(data[i])]

OpenShape == [tag |-> "html_open", test |-> 0]
CloseShape == [tag |-> "html_close", test |-> 0]

----------------------------------------------------------------------------
\* C1 (as stated): with no explicit labels, the override false and a
\* non-empty exclusion list, the labels handed over contain the leaf name of
\* no configured application whose leaf name is in the exclusion list and of
\* no django.contrib application.
C1_ExcludedByLeafName ==
    \A s \in Procs :
        (/\ pc # "idle"
         /\ test_labels = <<>>
         /\ Override \in Falsy
         /\ Excluded.t = "list" /\ Excluded.items # <<>>)
        => \A i \in DOMAIN Apps :
              (<<Apps[i][Len(Apps[i])]>> \in Range(Excluded.items)
                  \/ IsBundled(Apps[i]))
              => Apps[i][Len(Apps[i])] \notin Range(handed[s])

\* C1 (amended): under the same conditions the labels handed over are the
\* leaf names, in order, of exactly the configured applications whose full
\* name is not in the exclusion list and that are not django.contrib
\* applications.
C1_ExcludedByFullName ==
    \A s \in Procs :
        (/\ pc # "idle"
         /\ test_labels = <<>>
         /\ Override \in Falsy
         /\ Excluded.t = "list" /\ Excluded.items # <<>>)
        => /\ raised[s] # "TypeError"
           /\ handed[s] = LeafNames(SelectSeq(Apps, NotExcludedByFullName))

C1_Witness ==
    /\ pc = "not_started"
    /\ test_labels = <<>>
    /\ Override \in Falsy
    /\ Excluded.t = "list" /\ Excluded.items # <<>>
    /\ \E i \in DOMAIN Apps : Apps[i] \in Range(Excluded.items)
    /\ \E j \in DOMAIN Apps :
          /\ Apps[j] \notin Range(Excluded.items)
          /\ <<Apps[j][Len(Apps[j])]>> \in Range(Excluded.items)
          /\ handed["rep"] = <<Apps[j][Len(Apps[j])]>>

\* C2: explicit labels are handed to the engine unchanged, whatever the
\* exclusion list, the override and the configured applications are.
C2_ExplicitLabelsUnchanged ==
    \A s \in Procs :
        (pc # "idle" /\ test_labels # <<>>)
        => handed[s] = test_labels /\ raised[s] # "TypeError"

C2_Witness ==
    /\ pc = "not_started"
    /\ Len(test_labels) = 2
    /\ Override \in Falsy
    /\ Excluded.t = "list"
    /\ <<test_labels[2]>> \in Range(Excluded.items)
    /\ <<test_labels[2]>> \in Range(Apps)
    /\ handed["rep"] = test_labels

\* C3: with no explicit labels and the override true, the labels handed over
\* are the leaf names, in order, of the configured applications that are not
\* django.contrib applications, whatever the exclusion setting holds.
C3_OverrideKeepsAllButBundled ==
    \A s \in Procs :
        (pc # "idle" /\ test_labels = <<>> /\ Override = PyTrue)
        => /\ raised[s] # "TypeError"
           /\ handed[s] = LeafNames(SelectSeq(Apps, NotBundled))

C3_Witness ==
    /\ pc = "not_started"
    /\ test_labels = <<>>
    /\ Override = PyTrue
    /\ Excluded.t = "list"
    /\ Len(Apps) = 2
    /\ IsBundled(Apps[1])
    /\ Apps[2] \in Range(Excluded.items)
    /\ handed["rep"] = <<Apps[2][Len(Apps[2])]>>

\* C4: once the run has stopped, the report of a process with a destination
\* holds the opening block, one entry per terminal event in order (with the
\* exception only on failures, errors and expected failures), one summary
\* whose errors, failures, skips and tests fields are the numbers of errors,
\* failures, skips and executed tests, and the closing block.
C4_ReportMatchesOutcomes ==
    \A s \in Procs :
        (pc = "finished" /\ ~NoDestination(s))
        => LET f == Report(s)
               n == Len(f)
           IN  /\ n = Len(EntryShapes(delivered)) + 3
               /\ Shapes(SubSeq(f, 1, n - 2))
                     = <<OpenShape>> \o EntryShapes(delivered)
               /\ f[n - 1].tag = "summary"
               /\ f[n - 1].errors = [repr |-> "int", val |-> KindCount("error")]
               /\ f[n - 1].failures
                     = [repr |-> "int", val |-> KindCount("failure")]
               /\ f[n - 1].skips = [repr |-> "int", val |-> KindCount("skip")]
               /\ f[n - 1].tests = [repr |-> "int", val |-> StartedCount]
               /\ f[n].tag = "html_close"

\* C5: a process with no report destination (both settings missing, None or
\* empty) leaves every file as it was, whatever callbacks it receives.
C5_NoDestinationNoFileAccess ==
    \A s \in Procs :
        NoDestination(s)
        => \A p \in Paths :
              fs[s][p] = IF p = "a.html"
                         THEN [exists |-> FALSE, data |-> <<>>]
                         ELSE [exists |-> TRUE, data |-> <<[tag |-> "stale"]>>]

C5_Witness ==
    /\ pc = "finished"
    /\ NoDestination("norep")
    /\ settings["norep"].HOTRUNNER_XUNIT_FILENAME = ""
    /\ Len(delivered) = 2
    /\ delivered[1].kind = "failure"
    /\ result["norep"].failures = <<1>>
    /\ ~fs["norep"]["a.html"].exists

\* C6: the process with a destination and the process without one hold the
\* same aggregates after every callback.
C6_SameAggregates ==
    /\ result["rep"].errors = result["norep"].errors
    /\ result["rep"].failures = result["norep"].failures
    /\ result["rep"].skipped = result["norep"].skipped
    /\ result["rep"].expectedFailures = result["norep"].expectedFailures
    /\ result["rep"].unexpectedSuccesses = result["norep"].unexpectedSuccesses
    /\ result["rep"].testsRun = result["norep"].testsRun

\* C7: every failure or error of a started test that was delivered to the
\* result is in its failures or errors, also when the report could not be
\* written.
C7_FailureAlwaysRecorded ==
    \A s \in Procs : \A i \in DOMAIN delivered :
        LET e == delivered[i]
        IN  /\ (e.started /\ e.kind = "failure")
                => e.test \in Range(result[s].failures)
            /\ (e.started /\ e.kind = "error")
                => e.test \in Range(result[s].errors)

\* C8: the elapsed time recorded at a terminal event is the time of the
\* event minus the time captured by startTest for that same test, and is
\* not negative; this also for an error reported with no startTest.
C8_ElapsedOfSameTest ==
    \A s \in Procs :
        (delivered # <<>> /\ raised[s] # "AttributeError")
        => LET e == delivered[Len(delivered)]
           IN  /\ e.started
               /\ result[s].case_time_taken = e.at - e.startAt
               /\ result[s].case_time_taken >= 0

\* C9: during a run the report of a process with a destination is the
\* opening block followed by the entries of this run only; once the run has
\* stopped it is that, then one summary, then the closing block.  Nothing
\* of an earlier run or an earlier use of the file remains.
C9_ReportIsThisRunOnly ==
    \A s \in Procs :
        ~NoDestination(s)
        => LET f == Report(s)
               n == Len(f)
           IN  /\ pc = "running"
                    => Shapes(f) = <<OpenShape>> \o EntryShapes(delivered)
               /\ pc = "finished"
                    => /\ n = Len(EntryShapes(delivered)) + 3
                       /\ Shapes(SubSeq(f, 1, n - 2))
                             = <<OpenShape>> \o EntryShapes(delivered)
                       /\ f[n - 1].tag = "summary"
                       /\ Shapes(f)[n] = CloseShape

C9_Witness ==
    /\ pc = "finished"
    /\ Destination("rep") = "b.html"
    /\ result["rep"].run_start_time > 0
    /\ Len(delivered) = 2
    /\ Len(Report("rep")) = 6

\* C10 (as stated): a missing or malformed exclusion list (None) raises no
\* error and excludes no application by name, missing or empty destinations
\* write no report, and when both destination settings hold a path the
\* first is the one written.
C10_SilentFallback ==
    \A s \in Procs :
        /\ (pc # "idle" /\ test_labels = <<>>
                /\ Excluded.t \in {"missing", "none"})
            => /\ raised[s] # "TypeError"
               /\ (pc = "not_started"
                     => handed[s] = LeafNames(SelectSeq(Apps, NotBundled)))
        /\ NoDestination(s) => \A p \in Paths : ~fs[s][p].exists \/ p = "b.html"
        /\ (settings[s].HOTRUNNER_XUNIT_FILENAME \in Paths
                /\ settings[s].JUXD_FILENAME \in Paths
                /\ pc \in {"running", "finished"})
            => fs[s][settings[s].HOTRUNNER_XUNIT_FILENAME].data[1].tag
                  = "html_open"

\* C10 (amended): a missing exclusion list, a missing or None override and
\* missing, None or empty destinations raise no error and mean no exclusion
\* by name and no report; when both destination settings hold a path the
\* first is the one written and the other is left alone; but an exclusion
\* list of None is not tolerated: with no explicit labels, the override
\* false and a configured application, run_tests raises TypeError.
C10_FallbackExceptNoneList ==
    \A s \in Procs :
        /\ (pc # "idle" /\ test_labels = <<>> /\ Excluded.t = "missing")
            => /\ raised[s] # "TypeError"
               /\ handed[s] = LeafNames(SelectSeq(Apps, NotBundled))
        /\ (pc # "idle" /\ test_labels = <<>> /\ Excluded.t = "list"
                /\ Override \in {Missing, NoneV})
            => /\ raised[s] # "TypeError"
               /\ handed[s] = LeafNames(SelectSeq(Apps, NotExcludedByFullName))
        /\ (pc # "idle" /\ test_labels = <<>> /\ Excluded.t = "none"
                /\ Override \in Falsy /\ Apps # <<>>)
            => raised[s] = "TypeError" /\ pc = "crashed"
        /\ NoDestination(s)
            => /\ raised[s] # "IOError"
               /\ \A p \in Paths : ~fs[s][p].exists \/ p = "b.html"
               /\ fs[s]["b.html"].data = <<[tag |-> "stale"]>>
        /\ (settings[s].HOTRUNNER_XUNIT_FILENAME \in Paths
                /\ settings[s].JUXD_FILENAME \in Paths
                /\ settings[s].HOTRUNNER_XUNIT_FILENAME
                      # settings[s].JUXD_FILENAME)
            => /\ fs[s][settings[s].JUXD_FILENAME]
                    \in {[exists |-> FALSE, data |-> <<>>],
                         [exists |-> TRUE, data |-> <<[tag |-> "stale"]>>]}
               /\ pc \in {"running", "finished"}
                    => fs[s][settings[s].HOTRUNNER_XUNIT_FILENAME].data[1].tag
                          = "html_open"

C10_Witness ==
    /\ pc = "finished"
    /\ test_labels = <<>>
    /\ Excluded.t = "missing"
    /\ Override = NoneV
    /\ Len(Apps) = 2 /\ ~IsBundled(Apps[1])
    /\ handed["rep"] = LeafNames(Apps)
    /\ settings["rep"].HOTRUNNER_XUNIT_FILENAME = "a.html"
    /\ settings["rep"].JUXD_FILENAME = "b.html"
    /\ Len(fs["rep"]["a.html"].data) = 3
    /\ NoDestination("norep")

====
